---- MODULE Spec2Model ----
(***************************************************************************)
(* k8s-healer: the remediation engine (pkg/healer), the health classifier *)
(* (pkg/util) and the cooldown ledger (Healer.HealedPods).                 *)
(*                                                                         *)
(* The engine is a set of goroutines that share one Go map without any     *)
(* lock: one informer handler per entry of Healer.Namespaces, each calling *)
(* checkAndHealPod serially, and the cleaner goroutine started by          *)
(* startHealCacheCleaner.  A goroutine takes one step per access to shared *)
(* state (the map, the clock, the cluster API); purely local computation   *)
(* is folded into the step that precedes it.                               *)
(***************************************************************************)
EXTENDS Integers, Sequences, FiniteSets, TLC

VARIABLES
    Namespaces,   \* Healer.Namespaces: the list handed to NewHealer
    HealedPods,   \* Healer.HealedPods: map podKey -> time of last heal
    clock,        \* time.Now(), in units of one cooldown
    watching,     \* TRUE once Watch() has started the goroutines
    wpc,          \* per watcher: position of its handler goroutine
    wpod,         \* per watcher: the pod handed to checkAndHealPod
    werr,         \* per watcher: err returned by the Delete call
    spc,          \* cleaner goroutine: position
    sweepNow,     \* cleaner: now := time.Now() of the current tick
    sweepLeft,    \* cleaner: keys the range loop has still to produce
    sweepDone,    \* cleaner: keys the range loop has produced
    sweepKey,     \* cleaner: loop variable key
    sweepT,       \* cleaner: loop variable t
    crashed,      \* the Go runtime threw on a concurrent map access
    last,         \* the most recent observable effect (log line / API call)
    delAt,        \* per podKey: time of the latest Delete call, or -1
    stopped,      \* Healer.StopCh is closed
    watchDone,    \* Watch() has returned
    unswept,      \* the ledger as it would be had the cleaner removed nothing
    rInput,       \* resolver harness: the --namespaces string, as characters
    rCluster,     \* resolver harness: the namespaces the cluster lists
    rOut,         \* resolver harness: <<>> or <<the list returned>>
    cPod,         \* classifier harness: the pod under classification
    cResult       \* classifier harness: <<>> or <<IsUnhealthy, GetHealReason>>

vars == <<Namespaces, HealedPods, clock, watching, wpc, wpod, werr, spc,
          sweepNow, sweepLeft, sweepDone, sweepKey, sweepT, crashed, last,
          delAt, cPod, cResult, stopped, watchDone, unswept, rInput, rCluster,
          rOut>>

engineVars == <<Namespaces, HealedPods, clock, watching, wpc, wpod, werr, spc,
                sweepNow, sweepLeft, sweepDone, sweepKey, sweepT, crashed,
                last, delAt, stopped, watchDone, unswept>>

classifyVars == <<cPod, cResult>>

lifeVars == <<stopped, watchDone>>

resolveVars == <<rInput, rCluster, rOut>>

----------------------------------------------------------------------------
(* Bounds of the model. *)

MaxTime == 3          \* the clock runs from 0 to MaxTime
MaxContainers == 2    \* container statuses per classified pod
MaxRestarts == 4      \* restart counts 0..MaxRestarts
MaxInput == 4         \* characters of the -n input

(* Program constants. *)

DefaultRestartThreshold == 3

\* Healer.HealCooldown, in clock units (the flag's default is 10 minutes).
HealCooldown == 1

\* metav1.NamespaceAll
NamespaceAll == ""

----------------------------------------------------------------------------
(* The cluster: namespaces, pod names, what an informer can deliver. *)

ClusterNamespaces == {"a", "b"}
PodNames == {"p"}

\* The namespaces whose pods change while the engine runs; the pods of the
\* others are quiet and their informer events never arrive.
ActiveNamespaces == {"a"}

\* The lists startHealer hands to NewHealer here: empty (one watcher on all
\* namespaces), one namespace, and a plain list as
\* typed by the operator with a name repeated (two watchers on one
\* namespace; resolveWildcardNamespaces returns such a list as it is).
NamespaceLists == {<<>>, <<"a">>, <<"a", "a">>}

\* v1.ContainerState.Waiting is a pointer: <<>> is nil, <<r>> has Reason r.
NoWaiting == <<>>
Waiting(reason) == <<reason>>

Status(w, n) == [Waiting |-> w, RestartCount |-> n]

WaitingStates == {NoWaiting, Waiting(""), Waiting("CrashLoopBackOff"),
                  Waiting("ImagePullBackOff")}

\* The status lists the engine's informers deliver.
EngineStatuses ==
    { <<Status(Waiting("CrashLoopBackOff"), 2)>>,
      <<Status(NoWaiting, 4), Status(Waiting("CrashLoopBackOff"), 3)>> }

Pod(ns, name, owners, statuses) ==
    [Namespace |-> ns, Name |-> name, OwnerReferences |-> owners,
     ContainerStatuses |-> statuses]

NoPod == Pod("", "", 0, <<>>)

\* Pods an informer scoped to namespace ns delivers (informers.WithNamespace).
PodsOf(ns) ==
    { Pod(n, name, o, cs) :
        n \in (IF ns = NamespaceAll THEN ActiveNamespaces ELSE {ns}),
        name \in PodNames, o \in 0..1, cs \in EngineStatuses }

\* podKey := fmt.Sprintf("%s/%s", pod.Namespace, pod.Name)
PodKey(pod) == pod.Namespace \o "/" \o pod.Name

Keys == { PodKey(Pod(n, name, 0, <<>>)) : n \in ClusterNamespaces, name \in PodNames }

----------------------------------------------------------------------------
(* pkg/util: the health classifier. *)

RECURSIVE IsUnhealthyAbove(_, _)
IsUnhealthyAbove(statuses, i) ==
    IF i > Len(statuses) THEN FALSE
    ELSE IF /\ statuses[i].Waiting # NoWaiting
            /\ statuses[i].Waiting[1] = "CrashLoopBackOff"
            /\ statuses[i].RestartCount > DefaultRestartThreshold
         THEN TRUE
         ELSE IsUnhealthyAbove(statuses, i + 1)

RECURSIVE IsUnhealthyFrom(_, _)
IsUnhealthyFrom(statuses, i) ==
    IF i > Len(statuses) THEN FALSE
    ELSE IF /\ statuses[i].Waiting # NoWaiting
            /\ statuses[i].Waiting[1] = "CrashLoopBackOff"
            /\ statuses[i].RestartCount >= DefaultRestartThreshold
         THEN TRUE
         ELSE IsUnhealthyFrom(statuses, i + 1)

IsUnhealthy(pod) == IsUnhealthyFrom(pod.ContainerStatuses, 1)

\* The reason taken from the first container in CrashLoopBackOff, whatever
\* its restart count.
RECURSIVE GetHealReasonAny(_, _)
GetHealReasonAny(statuses, i) ==
    IF i > Len(statuses) THEN <<"Unspecified Failure">>
    ELSE IF /\ statuses[i].Waiting # NoWaiting
            /\ statuses[i].Waiting[1] = "CrashLoopBackOff"
         THEN <<"Persistent CrashLoopBackOff (Restarts: %d)", statuses[i].RestartCount>>
         ELSE GetHealReasonAny(statuses, i + 1)

\* fmt.Sprintf("Persistent CrashLoopBackOff (Restarts: %d)", n): the fixed
\* text and the number printed.
RECURSIVE GetHealReasonFrom(_, _)
GetHealReasonFrom(statuses, i) ==
    IF i > Len(statuses) THEN <<"Unspecified Failure">>
    ELSE IF /\ statuses[i].Waiting # NoWaiting
            /\ statuses[i].Waiting[1] = "CrashLoopBackOff"
            /\ statuses[i].RestartCount >= DefaultRestartThreshold
         THEN <<"Persistent CrashLoopBackOff (Restarts: %d)", statuses[i].RestartCount>>
         ELSE GetHealReasonFrom(statuses, i + 1)

GetHealReason(pod) == GetHealReasonFrom(pod.ContainerStatuses, 1)

----------------------------------------------------------------------------
(* pkg/healer: the engine. *)

\* The handler goroutines Watch has started, one per entry of Namespaces.
Watchers == DOMAIN wpc

\* The cluster API's answers to Pods(ns).Delete: nil, or an error (a
\* NotFound status, the 10 s context deadline or another API error).
DeleteErrors == {"nil", "NotFound", "Timeout"}

\* triggerPodDeletion's report of the Delete call:
\* if err != nil { "[FAIL] ..." } else { "[SUCCESS] ..." }
Report(err) == IF err # "nil" THEN "FAIL" ELSE "SUCCESS"

\* What a handler reports: its outcome, whether the pod had an owner and
\* whether it was in a persistent crash loop.
Log(op, pod) ==
    [op |-> op, owners |-> pod.OwnerReferences, unhealthy |-> IsUnhealthy(pod),
     report |-> ""]

\* The report of a Delete call that returned err.
LogDelete(pod, err) ==
    [Log("delete", pod) EXCEPT !.report = Report(err)]

\* m[key] = t
MapAssign(m, key, t) ==
    [k \in (DOMAIN m) \cup {key} |-> IF k = key THEN t ELSE m[k]]

\* delete(m, key)
MapDelete(m, key) == [k \in (DOMAIN m) \ {key} |-> m[k]]

\* NewHealer, then healer.HealCooldown = healCooldown in startHealer.
Init ==
    /\ Namespaces \in NamespaceLists
    /\ HealedPods = << >>
    /\ clock = 0
    /\ watching = FALSE
    /\ wpc = << >>
    /\ wpod = << >>
    /\ werr = << >>
    /\ spc = "off"
    /\ sweepNow = 0
    /\ sweepLeft = {}
    /\ sweepDone = {}
    /\ sweepKey = ""
    /\ sweepT = 0
    /\ crashed = FALSE
    /\ last = Log("none", NoPod)
    /\ delAt = [k \in Keys |-> -1]
    /\ cPod = NoPod
    /\ cResult = << >>
    /\ stopped = FALSE
    /\ watchDone = FALSE
    /\ unswept = HealedPods
    /\ rInput = << >>
    /\ rCluster = {}
    /\ rOut = << >>

\* Healer.Watch, lines 63-66: no namespace given means all namespaces.
WatchSet(namespaces) ==
    IF Len(namespaces) = 0 THEN <<NamespaceAll>> ELSE namespaces

\* Healer.Watch on a healer constructed with the list namespaces: default
\* to NamespaceAll, start the cleaner, start one goroutine per entry; each
\* starts its informer and waits for the cache to sync.
StartWatch(namespaces) ==
    /\ ~watching
    /\ ~crashed
    /\ Namespaces' = WatchSet(namespaces)
    /\ watching' = TRUE
    /\ spc' = "wait"
    /\ wpc' = [w \in 1..Len(Namespaces') |-> "sync"]
    /\ wpod' = [w \in 1..Len(Namespaces') |-> NoPod]
    /\ werr' = [w \in 1..Len(Namespaces') |-> "nil"]
    /\ UNCHANGED <<HealedPods, clock, sweepNow, sweepLeft, sweepDone, sweepKey,
                   sweepT, crashed, last, delAt, cPod, cResult, lifeVars,
                   unswept, resolveVars>>

Watch == StartWatch(Namespaces)

\* time passes
Tick ==
    /\ ~crashed
    /\ clock < MaxTime
    /\ clock' = clock + 1
    /\ UNCHANGED <<Namespaces, HealedPods, watching, wpc, wpod, werr, spc,
                   sweepNow, sweepLeft, sweepDone, sweepKey, sweepT, crashed,
                   last, delAt, cPod, cResult, lifeVars,
                   unswept, resolveVars>>

UnmanagedIgnored(pod) == FALSE

\* if len(pod.OwnerReferences) == 0 { return }
Unmanaged(pod) == pod.OwnerReferences = 0

\* UpdateFunc of watcher w receives a pod; checkAndHealPod starts and
\* returns at once for a pod without owner references.
Deliver(w, pod) ==
    /\ watching
    /\ ~crashed
    /\ wpc[w] = "idle"
    /\ IF Unmanaged(pod)
       THEN /\ last' = Log("unmanaged", pod)
            /\ UNCHANGED <<wpc, wpod>>
       ELSE /\ wpc' = [wpc EXCEPT ![w] = "check"]
            /\ wpod' = [wpod EXCEPT ![w] = pod]
            /\ UNCHANGED last
    /\ UNCHANGED <<Namespaces, HealedPods, clock, watching, werr, spc,
                   sweepNow, sweepLeft, sweepDone, sweepKey, sweepT, crashed,
                   delAt, cPod, cResult, lifeVars,
                   unswept, resolveVars>>

RecentlyHealedInclusive(m, key, now) ==
    /\ key \in DOMAIN m
    /\ now - m[key] <= HealCooldown

\* An entry never expires.
RecentlyHealedForever(m, key, now) == key \in DOMAIN m

\* if lastHeal, ok := h.HealedPods[podKey]; ok {
\*     if time.Since(lastHeal) < h.HealCooldown { ... return } }
RecentlyHealed(m, key, now) ==
    /\ key \in DOMAIN m
    /\ now - m[key] < HealCooldown

\* Check, refreshing the entry of a pod it has seen and does not delete.
CheckRefreshing(w) ==
    /\ ~crashed
    /\ wpc[w] = "check"
    /\ IF RecentlyHealed(HealedPods, PodKey(wpod[w]), clock) \/ ~IsUnhealthy(wpod[w])
       THEN /\ last' = Log(IF RecentlyHealed(HealedPods, PodKey(wpod[w]), clock)
                           THEN "skip" ELSE "healthy", wpod[w])
            /\ wpc' = [wpc EXCEPT ![w] = "idle"]
            /\ wpod' = [wpod EXCEPT ![w] = NoPod]
            /\ HealedPods' = IF PodKey(wpod[w]) \in DOMAIN HealedPods
                             THEN MapAssign(HealedPods, PodKey(wpod[w]), clock)
                             ELSE HealedPods
       ELSE /\ wpc' = [wpc EXCEPT ![w] = "delete"]
            /\ UNCHANGED <<wpod, last, HealedPods>>
    /\ UNCHANGED <<Namespaces, clock, watching, werr, spc,
                   sweepNow, sweepLeft, sweepDone, sweepKey, sweepT, crashed,
                   delAt, cPod, cResult, lifeVars,
                   unswept, resolveVars>>

\* Check, marking the pod in the ledger as soon as it is classified.
CheckAndMark(w) ==
    /\ ~crashed
    /\ wpc[w] = "check"
    /\ IF RecentlyHealed(HealedPods, PodKey(wpod[w]), clock)
       THEN /\ last' = Log("skip", wpod[w])
            /\ wpc' = [wpc EXCEPT ![w] = "idle"]
            /\ wpod' = [wpod EXCEPT ![w] = NoPod]
            /\ UNCHANGED HealedPods
       ELSE IF IsUnhealthy(wpod[w])
       THEN /\ wpc' = [wpc EXCEPT ![w] = "delete"]
            /\ HealedPods' = MapAssign(HealedPods, PodKey(wpod[w]), clock)
            /\ UNCHANGED <<wpod, last>>
       ELSE /\ last' = Log("healthy", wpod[w])
            /\ wpc' = [wpc EXCEPT ![w] = "idle"]
            /\ wpod' = [wpod EXCEPT ![w] = NoPod]
            /\ UNCHANGED HealedPods
    /\ UNCHANGED <<Namespaces, clock, watching, werr, spc,
                   sweepNow, sweepLeft, sweepDone, sweepKey, sweepT, crashed,
                   delAt, cPod, cResult, lifeVars,
                   unswept, resolveVars>>

\* checkAndHealPod, from the cooldown check to the call of
\* triggerPodDeletion: the map read, then the classification.
Check(w) ==
    /\ ~crashed
    /\ wpc[w] = "check"
    /\ IF RecentlyHealed(HealedPods, PodKey(wpod[w]), clock)
       THEN /\ last' = Log("skip", wpod[w])
            /\ wpc' = [wpc EXCEPT ![w] = "idle"]
            /\ wpod' = [wpod EXCEPT ![w] = NoPod]
       ELSE IF IsUnhealthy(wpod[w])
       THEN /\ wpc' = [wpc EXCEPT ![w] = "delete"]
            /\ UNCHANGED <<wpod, last>>
       ELSE /\ last' = Log("healthy", wpod[w])
            /\ wpc' = [wpc EXCEPT ![w] = "idle"]
            /\ wpod' = [wpod EXCEPT ![w] = NoPod]
    /\ UNCHANGED <<Namespaces, HealedPods, clock, watching, werr, spc,
                   sweepNow, sweepLeft, sweepDone, sweepKey, sweepT, crashed,
                   delAt, cPod, cResult, lifeVars,
                   unswept, resolveVars>>

\* Delete, calling the API again when the call fails.
DeleteRetrying(w) ==
    /\ ~crashed
    /\ wpc[w] = "delete"
    /\ \E err \in DeleteErrors :
         /\ werr' = [werr EXCEPT ![w] = err]
         /\ last' = LogDelete(wpod[w], err)
         /\ wpc' = [wpc EXCEPT ![w] = IF err = "nil" THEN "record" ELSE "delete"]
    /\ delAt' = [delAt EXCEPT ![PodKey(wpod[w])] = clock]
    /\ UNCHANGED <<Namespaces, HealedPods, clock, watching, wpod, spc,
                   sweepNow, sweepLeft, sweepDone, sweepKey, sweepT, crashed,
                   cPod, cResult, lifeVars,
                   unswept, resolveVars>>

\* triggerPodDeletion: one Delete call, its error only logged.
Delete(w) ==
    /\ ~crashed
    /\ wpc[w] = "delete"
    /\ \E err \in DeleteErrors :
         /\ werr' = [werr EXCEPT ![w] = err]
         /\ last' = LogDelete(wpod[w], err)
    /\ delAt' = [delAt EXCEPT ![PodKey(wpod[w])] = clock]
    /\ wpc' = [wpc EXCEPT ![w] = "record"]
    /\ UNCHANGED <<Namespaces, HealedPods, clock, watching, wpod, spc,
                   sweepNow, sweepLeft, sweepDone, sweepKey, sweepT, crashed,
                   cPod, cResult, lifeVars,
                   unswept, resolveVars>>

RecordedOnce(m, key, now, err) ==
    IF key \in DOMAIN m THEN m ELSE MapAssign(m, key, now)

\* The ledger after triggerPodDeletion returned with err:
\* h.HealedPods[podKey] = time.Now(), whatever err was.
Recorded(m, key, now, err) == MapAssign(m, key, now)

\* checkAndHealPod after triggerPodDeletion returned.
Record(w) ==
    /\ ~crashed
    /\ wpc[w] = "record"
    /\ HealedPods' = Recorded(HealedPods, PodKey(wpod[w]), clock, werr[w])
    /\ wpc' = [wpc EXCEPT ![w] = "idle"]
    /\ wpod' = [wpod EXCEPT ![w] = NoPod]
    /\ werr' = [werr EXCEPT ![w] = "nil"]
    /\ unswept' = Recorded(unswept, PodKey(wpod[w]), clock, werr[w])
    /\ UNCHANGED <<Namespaces, clock, watching, spc, sweepNow, sweepLeft,
                   sweepDone, sweepKey, sweepT, crashed, last, delAt, cPod,
                   cResult, lifeVars, resolveVars>>

\* case <-ticker.C: now := time.Now(); the range loop starts.
SweepTick ==
    /\ ~crashed
    /\ spc = "wait"
    /\ sweepNow' = clock
    /\ sweepLeft' = DOMAIN HealedPods
    /\ sweepDone' = {}
    /\ spc' = "range"
    /\ UNCHANGED <<Namespaces, HealedPods, clock, watching, wpc, wpod, werr,
                   sweepKey, sweepT, crashed, last, delAt, cPod, cResult, lifeVars,
                   unswept, resolveVars>>

StaleInclusive(now, t) == now - t >= 2 * HealCooldown

\* if now.Sub(t) > 2*h.HealCooldown
Stale(now, t) == now - t > 2 * HealCooldown

\* for key, t := range h.HealedPods: the loop produces the next entry and
\* tests its age.  An entry inserted while the loop runs may be produced
\* or not.
SweepRange ==
    /\ ~crashed
    /\ spc = "range"
    /\ \E k \in (DOMAIN HealedPods) \ sweepDone :
         /\ sweepDone' = sweepDone \cup {k}
         /\ sweepLeft' = sweepLeft \ {k}
         /\ IF Stale(sweepNow, HealedPods[k])
            THEN /\ sweepKey' = k
                 /\ sweepT' = HealedPods[k]
                 /\ spc' = "delete"
            ELSE UNCHANGED <<sweepKey, sweepT, spc>>
    /\ UNCHANGED <<Namespaces, HealedPods, clock, watching, wpc, wpod, werr,
                   sweepNow, crashed, last, delAt, cPod, cResult, lifeVars,
                   unswept, resolveVars>>

\* the range loop is over; back to the select.
SweepEnd ==
    /\ ~crashed
    /\ spc = "range"
    /\ (sweepLeft \cap DOMAIN HealedPods) \subseteq sweepDone
    /\ spc' = "wait"
    /\ sweepLeft' = {}
    /\ sweepDone' = {}
    /\ sweepNow' = 0
    /\ UNCHANGED <<Namespaces, HealedPods, clock, watching, wpc, wpod, werr,
                   sweepKey, sweepT, crashed, last, delAt, cPod, cResult, lifeVars,
                   unswept, resolveVars>>

\* delete(h.HealedPods, key)
SweepDelete ==
    /\ ~crashed
    /\ spc = "delete"
    /\ HealedPods' = MapDelete(HealedPods, sweepKey)
    /\ spc' = "range"
    /\ sweepKey' = ""
    /\ sweepT' = 0
    /\ UNCHANGED <<Namespaces, clock, watching, wpc, wpod, werr, sweepNow,
                   sweepLeft, sweepDone, crashed, last, delAt, cPod, cResult, lifeVars,
                   unswept, resolveVars>>

\* A cleaner whose select has no case for StopCh.
SweepStopIgnored ==
    /\ ~crashed
    /\ spc = "wait"
    /\ stopped
    /\ UNCHANGED vars

\* case <-h.StopCh: ticker.Stop(); return
SweepStop ==
    /\ ~crashed
    /\ spc = "wait"
    /\ stopped
    /\ spc' = "stopped"
    /\ UNCHANGED <<Namespaces, HealedPods, clock, watching, wpc, wpod, werr,
                   sweepNow, sweepLeft, sweepDone, sweepKey, sweepT, crashed,
                   last, delAt, cPod, cResult, lifeVars, unswept, resolveVars>>

\* close(healer.StopCh): closing a channel that is closed already panics.
TriggerShutdown ==
    /\ ~crashed
    /\ IF stopped
       THEN crashed' = TRUE /\ UNCHANGED stopped
       ELSE stopped' = TRUE /\ UNCHANGED crashed
    /\ UNCHANGED <<Namespaces, HealedPods, clock, watching, wpc, wpod, werr,
                   spc, sweepNow, sweepLeft, sweepDone, sweepKey, sweepT,
                   last, delAt, cPod, cResult, watchDone, unswept, resolveVars>>

\* startHealer: <-termCh, then close(healer.StopCh), once; the signal can
\* come before the goroutine of Watch has run.
Shutdown ==
    /\ ~stopped
    /\ TriggerShutdown

\* Watch: <-h.StopCh returns.
WatchReturn ==
    /\ ~crashed
    /\ watching
    /\ stopped
    /\ ~watchDone
    /\ watchDone' = TRUE
    /\ UNCHANGED <<Namespaces, HealedPods, clock, watching, wpc, wpod, werr,
                   spc, sweepNow, sweepLeft, sweepDone, sweepKey, sweepT,
                   crashed, last, delAt, cPod, cResult, stopped, unswept,
                   resolveVars>>

\* watchSingleNamespace: cache.WaitForCacheSync returned true; the
\* goroutine returns and the informer delivers updates.
SyncOk(w) ==
    /\ ~crashed
    /\ wpc[w] = "sync"
    /\ ~stopped
    /\ wpc' = [wpc EXCEPT ![w] = "idle"]
    /\ UNCHANGED <<Namespaces, HealedPods, clock, watching, wpod, werr,
                   spc, sweepNow, sweepLeft, sweepDone, sweepKey, sweepT,
                   crashed, last, delAt, cPod, cResult, lifeVars, unswept,
                   resolveVars>>

\* A watcher that ends the process when its cache does not sync.
SyncFailFatal(w) ==
    /\ ~crashed
    /\ wpc[w] = "sync"
    /\ stopped
    /\ wpc' = [wpc EXCEPT ![w] = "exit"]
    /\ crashed' = TRUE
    /\ UNCHANGED <<Namespaces, HealedPods, clock, watching, wpod, werr,
                   spc, sweepNow, sweepLeft, sweepDone, sweepKey, sweepT,
                   last, delAt, cPod, cResult, lifeVars, unswept,
                   resolveVars>>

\* watchSingleNamespace: cache.WaitForCacheSync returned false (it does
\* when StopCh is closed before the cache has synced): "Error syncing
\* cache", return.
SyncFail(w) ==
    /\ ~crashed
    /\ wpc[w] = "sync"
    /\ stopped
    /\ wpc' = [wpc EXCEPT ![w] = "exit"]
    /\ UNCHANGED <<Namespaces, HealedPods, clock, watching, wpod, werr,
                   spc, sweepNow, sweepLeft, sweepDone, sweepKey, sweepT,
                   crashed, last, delAt, cPod, cResult, lifeVars, unswept,
                   resolveVars>>

\* factory.Start(h.StopCh): the informer of a synced watcher stops once
\* StopCh is closed and its handler has returned; until it has, events it
\* had queued are still delivered.
WatcherStop(w) ==
    /\ ~crashed
    /\ wpc[w] = "idle"
    /\ stopped
    /\ wpc' = [wpc EXCEPT ![w] = "stopped"]
    /\ UNCHANGED <<Namespaces, HealedPods, clock, watching, wpod, werr,
                   spc, sweepNow, sweepLeft, sweepDone, sweepKey, sweepT,
                   crashed, last, delAt, cPod, cResult, lifeVars, unswept,
                   resolveVars>>

\* The map access goroutine g is about to make: the cleaner is goroutine 0.
MapOp(g) ==
    IF g = 0
    THEN (IF spc = "range" THEN "read" ELSE IF spc = "delete" THEN "write" ELSE "none")
    ELSE (IF wpc[g] = "check" THEN "read" ELSE IF wpc[g] = "record" THEN "write" ELSE "none")

\* Two goroutines access the unguarded map at once, one of them writing:
\* the runtime may detect it and throw ("concurrent map writes",
\* "concurrent map read and map write", "concurrent map iteration and map
\* write"), which ends the process.
MapRace ==
    /\ ~crashed
    /\ watching
    /\ \E g1, g2 \in {0} \cup Watchers :
         /\ g1 # g2
         /\ MapOp(g1) = "write"
         /\ MapOp(g2) # "none"
    /\ crashed' = TRUE
    /\ UNCHANGED <<Namespaces, HealedPods, clock, watching, wpc, wpod, werr,
                   spc, sweepNow, sweepLeft, sweepDone, sweepKey, sweepT,
                   last, delAt, cPod, cResult, lifeVars,
                   unswept, resolveVars>>

Next ==
    \/ Watch
    \/ Tick
    \/ \E w \in Watchers : \E pod \in PodsOf(Namespaces[w]) : Deliver(w, pod)
    \/ \E w \in Watchers : Check(w)
    \/ \E w \in Watchers : Delete(w)
    \/ \E w \in Watchers : Record(w)
    \/ SweepTick
    \/ SweepRange
    \/ SweepEnd
    \/ SweepDelete
    \/ SweepStop
    \/ MapRace
    \/ Shutdown
    \/ WatchReturn
    \/ \E w \in Watchers : SyncOk(w)
    \/ \E w \in Watchers : SyncFail(w)
    \/ \E w \in Watchers : WatcherStop(w)

Spec == Init /\ [][Next]_vars

----------------------------------------------------------------------------
(* The classifier on its own: every pod with up to MaxContainers container *)
(* statuses is classified.                                                 *)

ContainerStatusSet == { Status(w, n) : w \in WaitingStates, n \in 0..MaxRestarts }

StatusLists == UNION { [1..n -> ContainerStatusSet] : n \in 0..MaxContainers }

InitClassify ==
    /\ Namespaces = << >>
    /\ HealedPods = << >>
    /\ clock = 0
    /\ watching = FALSE
    /\ wpc = << >>
    /\ wpod = << >>
    /\ werr = << >>
    /\ spc = "off"
    /\ sweepNow = 0
    /\ sweepLeft = {}
    /\ sweepDone = {}
    /\ sweepKey = ""
    /\ sweepT = 0
    /\ crashed = FALSE
    /\ last = Log("none", NoPod)
    /\ delAt = [k \in Keys |-> -1]
    /\ cPod \in { Pod("a", "p", 1, cs) : cs \in StatusLists }
    /\ cResult = << >>
    /\ stopped = FALSE
    /\ watchDone = FALSE
    /\ unswept = << >>
    /\ rInput = << >>
    /\ rCluster = {}
    /\ rOut = << >>

\* util.IsUnhealthy(pod) and util.GetHealReason(pod)
Classify ==
    /\ cResult = << >>
    /\ cResult' = <<IsUnhealthy(cPod), GetHealReason(cPod)>>
    /\ UNCHANGED <<engineVars, cPod, resolveVars>>

NextClassify == Classify

SpecClassify == InitClassify /\ [][NextClassify]_vars

----------------------------------------------------------------------------
(* The cleaner on its own: the watchers are idle (no update arrives) and  *)
(* the ledger holds any entries earlier remediations can have left.       *)

InitSweep ==
    /\ Namespaces = <<NamespaceAll>>
    /\ clock \in 0..MaxTime
    /\ HealedPods \in UNION { [D -> 0..clock] : D \in SUBSET Keys }
    /\ watching = TRUE
    /\ wpc = <<"idle">>
    /\ wpod = <<NoPod>>
    /\ werr = <<"nil">>
    /\ spc = "wait"
    /\ sweepNow = 0
    /\ sweepLeft = {}
    /\ sweepDone = {}
    /\ sweepKey = ""
    /\ sweepT = 0
    /\ crashed = FALSE
    /\ last = Log("none", NoPod)
    /\ delAt = [k \in Keys |-> IF k \in DOMAIN HealedPods THEN HealedPods[k] ELSE -1]
    /\ cPod = NoPod
    /\ cResult = << >>
    /\ stopped = FALSE
    /\ watchDone = FALSE
    /\ unswept = HealedPods
    /\ rInput = << >>
    /\ rCluster = {}
    /\ rOut = << >>

NextSweep ==
    \/ Tick
    \/ SweepTick
    \/ SweepRange
    \/ SweepEnd
    \/ SweepDelete

SpecSweep == InitSweep /\ [][NextSweep]_vars

----------------------------------------------------------------------------
(* Properties. *)

\* The key of the pod watcher w is handling.
KeyOf(w) == PodKey(wpod[w])

\* The ledger holds an entry for key k younger than the cooldown.
InCooldown(k) == k \in DOMAIN HealedPods /\ clock - HealedPods[k] < HealCooldown

\* Some container of the pod waits in CrashLoopBackOff with at least 3 restarts.
CrashLooping(pod) ==
    \E i \in 1..Len(pod.ContainerStatuses) :
        /\ pod.ContainerStatuses[i].Waiting = <<"CrashLoopBackOff">>
        /\ pod.ContainerStatuses[i].RestartCount >= 3

\* C1: no Delete call is ever issued for a pod without owner reference:
\* a handler that is at or past the Delete call holds a pod with an owner,
\* and every Delete call reported was for a pod with an owner.
C1_UnmanagedNeverDeleted ==
    /\ \A w \in DOMAIN wpc :
         wpc[w] \in {"delete", "record"} => wpod[w].OwnerReferences > 0
    /\ last.op = "delete" => last.owners > 0

\* An unmanaged pod in a crash loop was delivered while the ledger was
\* empty for it, and the handler returned.
C1_Witness ==
    /\ last.op = "unmanaged"
    /\ last.unhealthy
    /\ last.owners = 0
    /\ \A w \in DOMAIN wpc : wpc[w] = "idle"
    /\ DOMAIN HealedPods = {}

\* C2: two handlers working on the same pod identity never both get past
\* the cooldown check: at most one of them is at the Delete call or at the
\* recording of the cooldown start.
C2_AtMostOneRemediation ==
    \A w1, w2 \in DOMAIN wpc :
        (/\ w1 # w2
         /\ wpc[w1] \in {"delete", "record"}
         /\ wpc[w2] \in {"delete", "record"})
        => KeyOf(w1) # KeyOf(w2)

\* C3: with a single watcher, a Delete call for a pod identity comes at
\* least HealCooldown after the previous Delete call for that identity.
C3_DeletesSeparated ==
    [][\A w \in DOMAIN wpc :
         (/\ Len(Namespaces) = 1
          /\ wpc[w] = "delete"
          /\ wpc'[w] = "record"
          /\ delAt[KeyOf(w)] # -1)
         => clock - delAt[KeyOf(w)] >= HealCooldown]_vars

C5_SkipIff ==
    [][\A w \in DOMAIN wpc :
         (wpc[w] = "check" /\ wpc'[w] # "check")
         => ((wpc'[w] = "idle" /\ last'.op = "skip") <=> InCooldown(KeyOf(w)))]_vars

\* A handler got past the check with an entry whose age is exactly
\* HealCooldown, with a single watcher.
C5_Witness ==
    /\ Len(Namespaces) = 1
    /\ \E w \in DOMAIN wpc :
         /\ wpc[w] = "delete"
         /\ KeyOf(w) \in DOMAIN HealedPods
         /\ clock - HealedPods[KeyOf(w)] = HealCooldown

\* C6: for a managed pod in a crash loop, the check goes on to the Delete
\* call when there is no entry or the entry is HealCooldown old or older,
\* and returns without a Delete call when the entry is younger; the handler
\* then issues one Delete call and sets the entry to the time of recording.
C6_HealSkipHeal ==
    [][\A w \in DOMAIN wpc :
         /\ (wpc[w] = "check" /\ wpc'[w] # "check" /\ CrashLooping(wpod[w]))
            => IF InCooldown(KeyOf(w))
               THEN wpc'[w] = "idle" /\ delAt' = delAt /\ HealedPods' = HealedPods
               ELSE wpc'[w] = "delete" /\ delAt' = delAt /\ HealedPods' = HealedPods
         /\ (wpc[w] = "delete" /\ wpc'[w] # "delete")
            => /\ wpc'[w] = "record"
               /\ delAt' = [delAt EXCEPT ![KeyOf(w)] = clock]
               /\ HealedPods' = HealedPods
         /\ (wpc[w] = "record" /\ wpc'[w] # "record")
            => /\ wpc'[w] = "idle"
               /\ delAt' = delAt
               /\ KeyOf(w) \in DOMAIN HealedPods'
               /\ HealedPods'[KeyOf(w)] = clock
               /\ \A k \in DOMAIN HealedPods :
                    k # KeyOf(w) => k \in DOMAIN HealedPods' /\ HealedPods'[k] = HealedPods[k]]_vars

\* The second remediation: the single watcher has issued a Delete call
\* while the entry of the first one, now HealCooldown old or older, is
\* still in the ledger.
C6_Witness ==
    /\ Len(Namespaces) = 1
    /\ \E w \in DOMAIN wpc :
         /\ wpc[w] = "record"
         /\ KeyOf(w) \in DOMAIN HealedPods
         /\ delAt[KeyOf(w)] >= HealedPods[KeyOf(w)] + HealCooldown

\* C7: when the Delete call failed (an error other than "not found"), the
\* handler leaves the ledger unchanged.
C7_FailedDeleteNotRecorded ==
    [][\A w \in DOMAIN wpc :
         (/\ wpc[w] = "record"
          /\ wpc'[w] # "record"
          /\ werr[w] \notin {"nil", "NotFound"})
         => HealedPods' = HealedPods]_vars

\* C8: every key of the ledger belongs to a pod identity for which a
\* Delete call was issued before.
C8_EntriesWereDeleted ==
    \A k \in DOMAIN HealedPods : delAt[k] # -1

\* The only entry is that of a pod a Delete call was issued for, stamped
\* at that call; the pod was then reported skipped, and a second watcher
\* that took it for unhealthy is at its own Delete call.
C8_Witness ==
    /\ last.op = "skip"
    /\ DOMAIN HealedPods = {"a/p"}
    /\ delAt["a/p"] = HealedPods["a/p"]
    /\ \E w \in DOMAIN wpc :
         /\ wpc[w] = "delete"
         /\ KeyOf(w) = "a/p"

\* C9: the cleaner never removes an entry that was written after it read
\* it: the entry it deletes still has the timestamp it tested.
C9_NoLostUpdate ==
    [][(spc = "delete" /\ spc' = "range" /\ sweepKey \in DOMAIN HealedPods)
       => HealedPods[sweepKey] = sweepT]_vars

C11_SweepInvisible ==
    [][/\ \A w \in DOMAIN wpc :
            (Len(Namespaces) = 1 /\ wpc[w] = "check" /\ wpc'[w] # "check")
            => (RecentlyHealed(HealedPods, KeyOf(w), clock)
                <=> RecentlyHealed(unswept, KeyOf(w), clock))
       /\ \A k \in DOMAIN HealedPods :
            (Len(Namespaces) = 1 /\ k \notin DOMAIN HealedPods')
            => clock - HealedPods[k] >= HealCooldown]_vars

\* C12: a Delete call that fails is contained. The handler issues one
\* Delete call per invocation and goes on to line 135 whatever the call
\* returned (no retry); after a failed call the handler returns, nothing
\* crashes, StopCh stays as it was, the sibling watchers and the cleaner
\* are where they were, and the watcher is ready for the next update.
C12_FailedDeleteContained ==
    [][\A w \in DOMAIN wpc :
         /\ (wpc[w] = "delete" /\ (wpc'[w] # "delete" \/ werr'[w] # werr[w]))
            => wpc'[w] = "record"
         /\ wpc[w] = "record" => wpc'[w] \in {"record", "idle"}
         /\ (wpc[w] = "record" /\ werr[w] # "nil" /\ wpc'[w] # "record")
            => /\ wpc'[w] = "idle"
               /\ watching' /\ ~crashed'
               /\ stopped' = stopped
               /\ spc' = spc
               /\ \A v \in DOMAIN wpc : v # w => wpc'[v] = wpc[v]]_vars

\* The Delete call of an invocation failed, the handler returned, and the
\* same watcher is handling a later update.
C12_Witness ==
    /\ Len(Namespaces) = 1
    /\ last.op = "delete"
    /\ last.report = "FAIL"
    /\ delAt["a/p"] # -1
    /\ wpc = <<"check">>
    /\ ~crashed

\* C14: a Delete call answered NotFound is reported as a success, and the
\* handler records the cooldown entry as it does after a successful call.
C14_NotFoundIsSuccess ==
    [][\A w \in DOMAIN wpc :
         /\ (wpc[w] = "delete" /\ wpc'[w] = "record" /\ werr'[w] = "NotFound")
            => last'.report = "SUCCESS"
         /\ (wpc[w] = "record" /\ werr[w] = "NotFound" /\ wpc'[w] = "idle")
            => (KeyOf(w) \in DOMAIN HealedPods'
                /\ HealedPods'[KeyOf(w)] = clock)]_vars

----------------------------------------------------------------------------
(* Progress. What the scheduling of the code guarantees: a goroutine that
   can take its next step takes it, a Delete call returns (its context
   times out after 10 s), time passes. A select with StopCh closed picks
   that case at random among the ready ones, and an informer whose StopCh
   is closed has finitely many events left to deliver: these two are
   strong. Nothing is assumed of the API server's events, of the cleaner's
   ticker or of the termination signal. *)

WatcherIds == {1} \cup UNION { 1..Len(l) : l \in NamespaceLists }

EngineFairness ==
    /\ WF_vars(Watch)
    /\ WF_vars(Tick)
    /\ WF_vars(WatchReturn)
    /\ WF_vars(SweepRange)
    /\ WF_vars(SweepEnd)
    /\ WF_vars(SweepDelete)
    /\ SF_vars(SweepStop)
    /\ \A w \in WatcherIds :
         /\ WF_vars(w \in Watchers /\ Check(w))
         /\ WF_vars(w \in Watchers /\ Delete(w))
         /\ WF_vars(w \in Watchers /\ Record(w))
         /\ WF_vars(w \in Watchers /\ SyncFail(w))
         /\ SF_vars(w \in Watchers /\ WatcherStop(w))

\* A healer started without -n: one watcher on all namespaces, its updates
\* are processed serially.
InitSerial == Init /\ Namespaces = << >>

SpecLiveSerial == InitSerial /\ [][Next]_vars /\ EngineFairness

\* The 30 s resync (or a status change) hands the watcher pod a/p, managed
\* and in a persistent crash loop.
Resync ==
    \E w \in Watchers :
        \E pod \in PodsOf("a") :
            /\ ~Unmanaged(pod)
            /\ IsUnhealthy(pod)
            /\ Deliver(w, pod)

\* C13: if the managed pod a/p, unhealthy, is delivered again and again,
\* then after a Delete call for it failed and the handler returned (the
\* entry it wrote leaves time for the cooldown to pass before MaxTime), a
\* handler reaches a new Delete call for a/p.
C13_FreshAttempt ==
    []<><<Resync>>_vars
    => ((/\ last.op = "delete"
         /\ last.report = "FAIL"
         /\ wpc = <<"idle">>
         /\ "a/p" \in DOMAIN HealedPods
         /\ HealedPods["a/p"] + HealCooldown <= MaxTime)
        ~> (wpc = <<"delete">> /\ KeyOf(1) = "a/p"))

\* A Delete call for a/p failed, its entry was recorded, and after the
\* cooldown a later update for a/p has reached a new Delete call.
C13_Witness ==
    /\ Len(Namespaces) = 1
    /\ last.op = "delete"
    /\ last.report = "FAIL"
    /\ wpc = <<"delete">>
    /\ "a/p" \in DOMAIN HealedPods
    /\ clock - HealedPods["a/p"] >= HealCooldown

\* Every task of the healer has ended: the cleaner has left its loop, each
\* watcher has stopped or given up waiting for its cache, Watch has
\* returned.
Terminated ==
    /\ watchDone
    /\ spc = "stopped"
    /\ \A w \in DOMAIN wpc : wpc[w] \in {"stopped", "exit"}

\* C15: once StopCh is closed, the cleaner, every watcher and the Watch
\* call eventually end (at the latest when a fatal error of the runtime
\* ends the whole process).
C15_ShutdownTerminates == stopped ~> (Terminated \/ crashed)

\* StopCh was closed after the watcher had healed a pod: the watcher has
\* stopped, the cleaner and Watch have returned, nothing crashed.
C15_Witness ==
    /\ stopped
    /\ ~crashed
    /\ Terminated
    /\ wpc = <<"stopped">>
    /\ DOMAIN HealedPods # {}

----------------------------------------------------------------------------
(* The healer driven by a caller that may trigger shutdown again: StopCh
   is an exported field and closing it is the only way to stop Watch. *)

NextRetrigger == Next \/ TriggerShutdown

SpecRetrigger == Init /\ [][NextRetrigger]_vars

C17_SyncFailureIsolated ==
    [][\A w \in DOMAIN wpc :
         (wpc[w] = "sync" /\ wpc'[w] = "exit")
         => /\ \A v \in DOMAIN wpc :
                 v # w => /\ wpc'[v] = wpc[v]
                          /\ wpod'[v] = wpod[v]
                          /\ werr'[v] = werr[v]
            /\ <<spc, sweepNow, sweepLeft, sweepDone, sweepKey, sweepT>>'
                 = <<spc, sweepNow, sweepLeft, sweepDone, sweepKey, sweepT>>
            /\ HealedPods' = HealedPods
            /\ watching' /\ ~crashed']_vars

\* The second watcher gave up waiting for its cache; the first, which had
\* synced, is past the Delete call for a pod of its namespace.
C17_Witness ==
    /\ Len(wpc) = 2
    /\ wpc[2] = "exit"
    /\ wpc[1] = "record"
    /\ werr[1] = "nil"
    /\ ~crashed
    /\ spc # "stopped"

----------------------------------------------------------------------------
(* cmd: resolveWildcardNamespaces on its own. A string is the sequence of
   its characters; the -n input is any string of up to MaxInput characters
   over Chars, the cluster holds any subset of ExistingNames. *)

Chars == {"a", "b", "*", ",", " "}

Strings(n) == UNION { [1..k -> Chars] : k \in 0..n }

ExistingNames == {<<"a">>, <<"b">>, <<"a", "b">>}

\* strings.Split(s, ",")
RECURSIVE Split(_)
Split(s) ==
    IF \A i \in 1..Len(s) : s[i] # ","
    THEN <<s>>
    ELSE LET i == CHOOSE i \in 1..Len(s) :
                      s[i] = "," /\ \A j \in 1..(i - 1) : s[j] # ","
         IN  <<SubSeq(s, 1, i - 1)>> \o Split(SubSeq(s, i + 1, Len(s)))

\* strings.TrimSpace(p)
TrimSpace(p) ==
    LET I == { i \in 1..Len(p) : p[i] # " " }
    IN  IF I = {} THEN << >>
        ELSE SubSeq(p, CHOOSE i \in I : \A j \in I : i <= j,
                       CHOOSE i \in I : \A j \in I : i >= j)

\* patterns := strings.Split(namespacesInput, ","), each trimmed
Patterns(namespacesInput) ==
    LET parts == Split(namespacesInput)
    IN  [i \in 1..Len(parts) |-> TrimSpace(parts[i])]

\* strings.Contains(p, "*") for some pattern p
NeedsResolution(patterns) ==
    \E i \in 1..Len(patterns) : \E j \in 1..Len(patterns[i]) : patterns[i][j] = "*"

\* A glob in which '*' stands for at least one character.
RECURSIVE MatchNonEmptyStar(_, _)
MatchNonEmptyStar(pattern, name) ==
    IF pattern = << >> THEN name = << >>
    ELSE IF Head(pattern) = "*"
         THEN /\ name # << >>
              /\ \/ MatchNonEmptyStar(Tail(pattern), Tail(name))
                 \/ MatchNonEmptyStar(pattern, Tail(name))
         ELSE /\ name # << >>
              /\ Head(name) = Head(pattern)
              /\ MatchNonEmptyStar(Tail(pattern), Tail(name))

\* filepath.Match(pattern, name) for patterns of literal characters and
\* '*', which matches any sequence of characters (a name holds no '/').
RECURSIVE Match(_, _)
Match(pattern, name) ==
    IF pattern = << >> THEN name = << >>
    ELSE IF Head(pattern) = "*"
         THEN \/ Match(Tail(pattern), name)
              \/ name # << >> /\ Match(pattern, Tail(name))
         ELSE /\ name # << >>
              /\ Head(name) = Head(pattern)
              /\ Match(Tail(pattern), Tail(name))

\* resolvedNamespaces: the names of nsList.Items that some pattern matches,
\* as the keys of a map.
ResolvedNamespaces(patterns, nsList) ==
    { ns \in nsList : \E i \in 1..Len(patterns) : Match(patterns[i], ns) }

\* for ns := range resolvedNamespaces { finalNsList = append(...) }: the
\* keys once each, in the order the map iteration happens to take.
FinalNsLists(resolved) ==
    { l \in [1..Cardinality(resolved) -> resolved] :
        \A i, j \in 1..Cardinality(resolved) : l[i] = l[j] => i = j }

InitResolve ==
    /\ Namespaces = << >>
    /\ HealedPods = << >>
    /\ clock = 0
    /\ watching = FALSE
    /\ wpc = << >>
    /\ wpod = << >>
    /\ werr = << >>
    /\ spc = "off"
    /\ sweepNow = 0
    /\ sweepLeft = {}
    /\ sweepDone = {}
    /\ sweepKey = ""
    /\ sweepT = 0
    /\ crashed = FALSE
    /\ last = Log("none", NoPod)
    /\ delAt = [k \in Keys |-> -1]
    /\ cPod = NoPod
    /\ cResult = << >>
    /\ stopped = FALSE
    /\ watchDone = FALSE
    /\ unswept = << >>
    /\ rInput \in Strings(MaxInput)
    /\ rCluster \in SUBSET ExistingNames
    /\ rOut = << >>

\* resolveWildcardNamespaces(kubeconfigPath, rInput): the list and the
\* error it returns.
Resolve ==
    /\ rOut = << >>
    /\ LET patterns == Patterns(rInput)
       IN  IF rInput = << >>
           THEN rOut' = << << >>, "nil" >>
           ELSE IF ~NeedsResolution(patterns)
           THEN rOut' = <<patterns, "nil">>
           ELSE \/ rOut' = << << >>, "failed to list namespaces" >>
                \/ \E l \in FinalNsLists(ResolvedNamespaces(patterns, rCluster)) :
                       rOut' = <<l, "nil">>
    /\ UNCHANGED <<engineVars, classifyVars, rInput, rCluster>>

NextResolve == Resolve

SpecResolve == InitResolve /\ [][NextResolve]_vars

\* The glob relation itself: the characters of the name can be dealt out
\* to the positions of the pattern, in order, one to each literal (the
\* same character) and any number to each '*'.
Globs(pattern, name) ==
    \E cut \in [0..Len(pattern) -> 0..Len(name)] :
        /\ cut[0] = 0
        /\ cut[Len(pattern)] = Len(name)
        /\ \A i \in 1..Len(pattern) :
             IF pattern[i] = "*"
             THEN cut[i] >= cut[i - 1]
             ELSE /\ cut[i] = cut[i - 1] + 1
                  /\ name[cut[i]] = pattern[i]

\* C18: when the input holds a wildcard and the namespaces could be
\* listed, the list returned holds exactly the existing namespaces that
\* some supplied pattern matches, each once.
C18_ExactlyTheMatches ==
    (rOut # << >> /\ NeedsResolution(Patterns(rInput)) /\ rOut[2] = "nil")
    => /\ { rOut[1][i] : i \in 1..Len(rOut[1]) }
            = { ns \in rCluster :
                  \E i \in 1..Len(Patterns(rInput)) :
                      Globs(Patterns(rInput)[i], ns) }
       /\ \A i, j \in 1..Len(rOut[1]) : rOut[1][i] = rOut[1][j] => i = j

\* "a*, b" over {a, b, ab} resolved to a, ab and b, each once.
C18_Witness ==
    /\ rInput = <<"a", "*", ",", "b">>
    /\ rCluster = ExistingNames
    /\ rOut # << >>
    /\ rOut[2] = "nil"
    /\ Len(rOut[1]) = 3

\* C19: a pod classified unhealthy gets the reason "Persistent
\* CrashLoopBackOff (Restarts: n)" with n the restart count of the first
\* container status, in order, that waits in CrashLoopBackOff with at
\* least 3 restarts, and never "Unspecified Failure".
C19_ReasonOfFirstQualifying ==
    (cResult # << >> /\ cResult[1])
    => /\ cResult[2] # <<"Unspecified Failure">>
       /\ \E i \in 1..Len(cPod.ContainerStatuses) :
            /\ cPod.ContainerStatuses[i].Waiting = <<"CrashLoopBackOff">>
            /\ cPod.ContainerStatuses[i].RestartCount >= 3
            /\ \A j \in 1..(i - 1) :
                 ~(/\ cPod.ContainerStatuses[j].Waiting = <<"CrashLoopBackOff">>
                   /\ cPod.ContainerStatuses[j].RestartCount >= 3)
            /\ cResult[2] = <<"Persistent CrashLoopBackOff (Restarts: %d)",
                              cPod.ContainerStatuses[i].RestartCount>>

\* A pod was classified whose first container is in CrashLoopBackOff below
\* the threshold and whose second is in it with 4 restarts: the reason
\* names 4.
C19_Witness ==
    /\ cResult # << >>
    /\ cResult[1]
    /\ Len(cPod.ContainerStatuses) = 2
    /\ cPod.ContainerStatuses[1] = Status(Waiting("CrashLoopBackOff"), 2)
    /\ cPod.ContainerStatuses[2] = Status(Waiting("CrashLoopBackOff"), 4)
    /\ cResult[2][2] = 4

C21_ClassifyBeforeLedger ==
    [][\A w \in DOMAIN wpc :
         (wpc[w] = "check" /\ wpc'[w] = "idle")
         => /\ (~IsUnhealthy(wpod[w]) => last'.op = "healthy")
            /\ (last'.op = "skip" => last'.unhealthy)]_vars

----------------------------------------------------------------------------
(* cmd: startHealer from the -n input to the running watchers. *)

\* The Go string of a sequence of characters.
RECURSIVE Name(_)
Name(s) == IF s = << >> THEN "" ELSE Head(s) \o Name(Tail(s))

\* startHealer: an error of the resolution ends the process (os.Exit(1));
\* otherwise NewHealer(kubeconfigPath, nsList) and go healer.Watch().
StartHealer ==
    /\ rOut # << >>
    /\ \/ /\ rOut[2] # "nil"
          /\ ~crashed
          /\ crashed' = TRUE
          /\ UNCHANGED <<Namespaces, HealedPods, clock, watching, wpc, wpod,
                         werr, spc, sweepNow, sweepLeft, sweepDone, sweepKey,
                         sweepT, last, delAt, cPod, cResult, lifeVars,
                         unswept, resolveVars>>
       \/ /\ rOut[2] = "nil"
          /\ StartWatch([i \in 1..Len(rOut[1]) |-> Name(rOut[1][i])])

NextStart == Resolve \/ StartHealer

SpecStart == InitResolve /\ [][NextStart]_vars

\* C22: with a non-empty -n input, no watcher is on all namespaces: the
\* watchers are those of the resolved names, one for one, and each name
\* is matched by one of the supplied patterns, also when the patterns
\* match no existing namespace.
C22_SentinelOnlyForEmptyInput ==
    (watching /\ rInput # << >>)
    => /\ Len(Namespaces) = Len(rOut[1])
       /\ \A w \in 1..Len(Namespaces) :
            /\ Namespaces[w] # NamespaceAll
            /\ Namespaces[w] = Name(rOut[1][w])
            /\ \E i \in 1..Len(Patterns(rInput)) :
                 Globs(Patterns(rInput)[i], rOut[1][w])

\* C23: the list handed to Watch holds no namespace twice, so no two
\* watchers are on the same namespace.
C23_NoNamespaceTwice ==
    watching
    => \A i, j \in 1..Len(Namespaces) : Namespaces[i] = Namespaces[j] => i = j

====
